---- MODULE Spec2Model ----
(***************************************************************************)
(* Model of src/calculate_reimbursement_final.py: calculate_reimbursement, *)
(* the rule cascade that maps (trip_duration_days, miles_traveled,         *)
(* total_receipts_amount) to a reimbursement.                              *)
(*                                                                         *)
(* Units.  All arithmetic is exact, over scaled integers:                  *)
(*   trip_duration_days     whole days                                     *)
(*   miles_traveled         the float miles_traveled * 10^miles_exp10,     *)
(*                          a whole number of miles when miles_exp10 = 0   *)
(*   total_receipts_amount  thousandths of a dollar (2321.49 is 2321490)   *)
(*   result                 cents (322.00 is 32200)                        *)
(* An unrounded amount is a record [q, rem, den]: q + rem/den cents with   *)
(* 0 <= rem < den.                                                         *)
(*                                                                         *)
(* The code computes in binary floating point.  Its result is the exact    *)
(* result wherever the exact amount is not halfway between two cents; at   *)
(* a halfway amount round() rounds the double it is given half to even,    *)
(* and that double is the exact amount only where the arithmetic that      *)
(* produced it is exact (receipts a multiple of 1/8 dollar added to an     *)
(* integer).  Inputs whose exact amount is halfway but whose double is     *)
(* not (RepresentationSensitive) are left out of Init.                     *)
(***************************************************************************)
EXTENDS Integers, FiniteSets

\* ---------------------------------------------------------------- bounds
MaxDays == 14
MaxMilesSteps == 12
MaxReceiptSteps == 20

VARIABLES trip_duration_days, miles_traveled, miles_exp10,
          total_receipts_amount, pc, path, rule, outcome, result

vars == <<trip_duration_days, miles_traveled, miles_exp10,
          total_receipts_amount, pc, path, rule, outcome, result>>

inputs == <<trip_duration_days, miles_traveled, miles_exp10,
            total_receipts_amount>>

\* ------------------------------------------------------- exact amounts
\* num/den cents as floor, remainder and denominator (den > 0).
Amt(num, den) ==
    [q |-> num \div den, rem |-> num % den, den |-> den]

\* round(x, 2) of the built-in: the nearest cent, halfway cases to the even
\* cent (the double handed to round() is the exact amount, see the header).
PyRound(a) ==
    IF 2 * a.rem < a.den THEN a.q
    ELSE IF 2 * a.rem > a.den THEN a.q + 1
    ELSE IF a.q % 2 = 0 THEN a.q ELSE a.q + 1

\* The spec's convention: halfway cases go up.
RoundHalfUp(a) ==
    IF 2 * a.rem >= a.den THEN a.q + 1 ELSE a.q

IsHalfway(a) ==
    2 * a.rem = a.den

\* ------------------------------------------------- float magnitude of miles
\* miles_traveled * 10^miles_exp10 is so large that 3 * miles is above the
\* largest double (about 1.797e308) and evaluates to inf.
Huge(m, e) ==
    e = 308 /\ m >= 1

MilesIn(m, e, lo, hi) ==
    ~Huge(m, e) /\ lo <= m /\ m <= hi

MilesGT(m, e, x) ==
    Huge(m, e) \/ m > x

MilesLT(m, e, x) ==
    ~Huge(m, e) /\ m < x

ReceiptsIn(r, lo, hi) ==
    lo * 1000 <= r /\ r <= hi * 1000

\* miles_per_day = miles_traveled / trip_duration_days if days > 0 else 0,
\* compared with a whole threshold x.
MpdLT(d, m, e, x) ==
    IF d > 0 THEN ~Huge(m, e) /\ m < x * d ELSE 0 < x

MpdLE(d, m, e, x) ==
    IF d > 0 THEN ~Huge(m, e) /\ m <= x * d ELSE 0 <= x

\* ------------------------------------------------ stage 2: minimal travel
\* Mutant of LowTravel: the threshold mistyped as 10.
LowTravel_Below10(d, m, e) ==
    MpdLT(d, m, e, 10)

\* Line 17: miles_per_day < 20.
LowTravel(d, m, e) ==
    MpdLT(d, m, e, 20)

\* Mutant of LowTravelAmount: the short-trip bonus of line 33 taken as
\* days * 50, the bonus of line 166.
LowTravelAmount_Bonus50(d, r) ==
    IF d >= 12
    THEN IF r < 500 * 1000
         THEN Amt(700 * 1000 + r, 10)
         ELSE Amt(800 * 10000 + 8 * r, 100)
    ELSE Amt(r + d * 50 * 1000, 10)

\* Lines 22-34, before round(): 700 + receipts, 800 + receipts * 0.8, or
\* receipts + days * 20.
LowTravelAmount(d, r) ==
    IF d >= 12
    THEN IF r < 500 * 1000
         THEN Amt(700 * 1000 + r, 10)
         ELSE Amt(800 * 10000 + 8 * r, 100)
    ELSE Amt(r + d * 20 * 1000, 10)

\* ------------------------------------- stages 3 and 4: the ordered rules
\* The if-statements of lines 38-174 in the order of the code: 1-11 the
\* first block of hardcoded cases, 12-13 two broad patterns, 14-18 the
\* second block of hardcoded cases, 19-22 four more broad patterns.
RuleIds ==
    1 .. 22

SpecialIds ==
    (1 .. 11) \cup (14 .. 18)

PatternIds ==
    RuleIds \ SpecialIds

RuleMatches(i, d, m, e, r) ==
    CASE i = 1 -> d = 4 /\ MilesIn(m, e, 65, 75) /\ ReceiptsIn(r, 2300, 2350)
      [] i = 2 -> d = 14 /\ MilesIn(m, e, 1050, 1060) /\ ReceiptsIn(r, 2480, 2500)
      [] i = 3 -> d = 14 /\ MilesIn(m, e, 860, 870) /\ ReceiptsIn(r, 2490, 2500)
      [] i = 4 -> d = 8 /\ MilesIn(m, e, 790, 800) /\ ReceiptsIn(r, 1640, 1650)
      [] i = 5 -> d = 12 /\ MilesIn(m, e, 985, 995) /\ ReceiptsIn(r, 2490, 2500)
      [] i = 6 -> d = 1 /\ MilesIn(m, e, 1080, 1085) /\ ReceiptsIn(r, 1805, 1815)
      [] i = 7 -> d = 8 /\ MilesIn(m, e, 480, 485) /\ ReceiptsIn(r, 1410, 1415)
      [] i = 8 -> d = 13 /\ MilesIn(m, e, 1195, 1205) /\ ReceiptsIn(r, 490, 495)
      [] i = 9 -> d = 7 /\ MilesIn(m, e, 945, 950) /\ ReceiptsIn(r, 655, 660)
      [] i = 10 -> d = 14 /\ MilesIn(m, e, 475, 485) /\ ReceiptsIn(r, 935, 945)
      [] i = 11 -> d = 13 /\ MilesIn(m, e, 1030, 1040) /\ ReceiptsIn(r, 2475, 2480)
      [] i = 12 -> d >= 13 /\ MilesGT(m, e, 400) /\ r > 2000 * 1000
      [] i = 13 -> 8 <= d /\ d <= 12 /\ MilesGT(m, e, 700) /\ r > 1500 * 1000
      [] i = 14 -> d = 10 /\ MilesIn(m, e, 160, 170) /\ ReceiptsIn(r, 1140, 1150)
      [] i = 15 -> d = 10 /\ MilesLT(m, e, 10) /\ ReceiptsIn(r, 1335, 1345)
      [] i = 16 -> d = 11 /\ MilesIn(m, e, 170, 180) /\ ReceiptsIn(r, 1045, 1055)
      [] i = 17 -> d = 10 /\ MilesIn(m, e, 170, 180) /\ ReceiptsIn(r, 1440, 1450)
      [] i = 18 -> d = 11 /\ MilesIn(m, e, 735, 745) /\ ReceiptsIn(r, 1170, 1175)
      [] i = 19 -> d = 10 /\ MilesLT(m, e, 300)
                   /\ r > 2000 * 1000 /\ r < 2500 * 1000
      [] i = 20 -> d = 1 /\ MilesGT(m, e, 800) /\ r > 2000 * 1000
      [] i = 21 -> d >= 13 /\ d <= 14 /\ MilesLT(m, e, 300)
      [] i = 22 -> 9 <= d /\ d <= 11 /\ ReceiptsIn(r, 1000, 1500)

\* The literal a hardcoded case returns, in cents.
SpecialValue(i) ==
    CASE i = 1 -> 32200
      [] i = 2 -> 189416
      [] i = 3 -> 188587
      [] i = 4 -> 64469
      [] i = 5 -> 175384
      [] i = 6 -> 44694
      [] i = 7 -> 63181
      [] i = 8 -> 163413
      [] i = 9 -> 157897
      [] i = 10 -> 87717
      [] i = 11 -> 184224
      [] i = 14 -> 151643
      [] i = 15 -> 161025
      [] i = 16 -> 144413
      [] i = 17 -> 163550
      [] i = 18 -> 90209

\* Lines 147-154: the receipt addend of the 13-14 day low-mileage pattern.
LongLowMileageAddend(r) ==
    IF r < 500 * 1000 THEN 100
    ELSE IF r <= 1000 * 1000 THEN 150
    ELSE IF r <= 1500 * 1000 THEN 200
    ELSE 250

\* The closed form of a broad pattern before round(), for miles that are
\* not Huge.
PatternAmount(i, d, m, e, r) ==
    CASE i = 12 -> Amt(1800 * 100 + 10 * m, 1)
      [] i = 13 -> Amt(700 * 100 + 20 * m, 1)
      [] i = 19 -> Amt(1600 * 100 * 300 + 50 * 100 * m
                       + 3 * (r - 2000 * 1000), 300)
      [] i = 20 -> Amt(1400 * 100 + 10 * m, 1)
      [] i = 21 -> Amt((1600 + LongLowMileageAddend(r)) * 100 * 3 + 100 * m, 3)
      [] i = 22 -> IF MpdLT(d, m, e, 20) THEN Amt(r + d * 50 * 1000, 10)
                   ELSE IF MpdLT(d, m, e, 50) THEN Amt((1500 + d * 15) * 100, 1)
                   ELSE Amt((1400 + d * 10) * 100, 1)

\* The closed form uses miles_traveled itself (not only comparisons of it).
PatternUsesMiles(i) ==
    i \in {12, 13, 19, 20, 21}

\* Mutant of FirstMatch: the broad patterns tried before the hardcoded
\* cases.
FirstMatch_PatternsFirst(d, m, e, r) ==
    LET P == {i \in PatternIds : RuleMatches(i, d, m, e, r)}
        S == {i \in SpecialIds : RuleMatches(i, d, m, e, r)}
    IN IF P # {} THEN CHOOSE i \in P : \A j \in P : i <= j
       ELSE IF S # {} THEN CHOOSE i \in S : \A j \in S : i <= j
       ELSE 0

\* The first rule, in the order of the code, whose condition holds; 0 when
\* none does.
FirstMatch(d, m, e, r) ==
    LET S == {i \in RuleIds : RuleMatches(i, d, m, e, r)}
    IN IF S = {} THEN 0 ELSE CHOOSE i \in S : \A j \in S : i <= j

\* Mutant of Stage: the hardcoded cases tried before the minimal-travel
\* block.
Stage_SpecialFirst(d, m, e, r) ==
    IF FirstMatch(d, m, e, r) \in SpecialIds THEN "special"
    ELSE IF LowTravel(d, m, e) THEN "low_travel"
    ELSE IF FirstMatch(d, m, e, r) \in PatternIds THEN "pattern"
    ELSE "default"

\* Which return statement the call reaches.
Stage(d, m, e, r) ==
    IF LowTravel(d, m, e) THEN "low_travel"
    ELSE IF FirstMatch(d, m, e, r) \in SpecialIds THEN "special"
    ELSE IF FirstMatch(d, m, e, r) \in PatternIds THEN "pattern"
    ELSE "default"

\* ------------------------------------------- stage 5: the default formula
\* Sub-totals are whole numbers of 1/Scale dollars: receipts are multiples
\* of 1/200 dollar, every rate is a multiple of 0.05 and so is every
\* spending multiplier, which makes each product a multiple of
\* 1/(200 * 20 * 20) dollar.
Scale ==
    200 * 20 * 20

\* dollars + hundredths/100, in 1/Scale dollars.
Money(dollars, hundredths) ==
    dollars * Scale + hundredths * (Scale \div 100)

\* base + (receipts - off) * pct/100, in 1/Scale dollars, for receipts r in
\* thousandths of a dollar that are a multiple of 1/200 dollar.
Lin(base, r, off, pct) ==
    base * Scale + ((r \div 5) - off * 200) * pct * (Scale \div 20000)

\* Lines 177-194.
per_diem_total(d) ==
    LET base_per_diem == IF d <= 3 THEN 110 ELSE IF d <= 7 THEN 100 ELSE 90
        pct == IF d = 5 THEN 112
               ELSE IF d >= 10 THEN 88
               ELSE IF d = 1 THEN 90
               ELSE 100
    IN d * base_per_diem * pct * (Scale \div 100)

\* Lines 200-218: which branch sets mileage_reimbursement.
MileageTier(d, m, e) ==
    IF d = 1 /\ MilesGT(m, e, 800) THEN "air"
    ELSE IF MpdLT(d, m, e, 20) THEN "lt20"
    ELSE IF MpdLT(d, m, e, 50) THEN "lt50"
    ELSE IF MpdLE(d, m, e, 100) THEN "le100"
    ELSE "gt100"

mileage_reimbursement(d, m, e) ==
    LET t == MileageTier(d, m, e)
    IN CASE t = "air" -> Money(400, 0) + Money(0, 15 * m)
         [] t = "lt20" -> Money(0, 30 * m)
         [] t = "lt50" -> Money(0, 40 * m)
         [] t = "le100" -> Money(0, 58 * m)
         [] t = "gt100" ->
              IF m > 500
              THEN Money(58 + 208, 0) + Money(0, 48 * (m - 500))
              ELSE Money(58, 0) + Money(0, 52 * (m - 100))

\* Lines 224-241: the rate of the efficiency bonus, in cents per mile.
EfficiencyRate(d, m, e) ==
    IF MpdLT(d, m, e, 20) THEN 0
    ELSE IF MpdLT(d, m, e, 50) THEN 1
    ELSE IF MpdLT(d, m, e, 100) THEN 2
    ELSE IF MpdLT(d, m, e, 180) THEN 3
    ELSE IF MpdLE(d, m, e, 220) THEN 5
    ELSE 2

efficiency_bonus(d, m, e) ==
    Money(0, EfficiencyRate(d, m, e) * m)

\* Line 247: int(round((total_receipts_amount * 100) % 100)).
receipt_cents(r) ==
    PyRound(Amt(r % 1000, 10))

\* Mutant of rounding_bonus: the bonus never granted.
rounding_bonus_None(r) ==
    0

\* Lines 248-250.
rounding_bonus(r) ==
    IF receipt_cents(r) = 49 \/ receipt_cents(r) = 99 THEN Money(2, 50) ELSE 0

\* Lines 253-321: which block sets receipt_reimbursement.
ReceiptTier(d, m, e, r) ==
    IF MpdLT(d, m, e, 20) THEN "minimal_travel"
    ELSE IF r > 2000 * 1000 THEN "high"
    ELSE "regular"

\* Lines 253-321: receipt_reimbursement before the adjustments.
receipt_base(d, m, e, r) ==
    LET t == ReceiptTier(d, m, e, r)
    IN CASE t = "minimal_travel" ->
              IF d <= 3 THEN Lin(0, r, 0, 70)
              ELSE IF d <= 7 THEN Lin(0, r, 0, 80)
              ELSE Lin(0, r, 0, 90)
         [] t = "high" ->
              IF d <= 3 THEN Lin(300, r, 2000, -30)
              ELSE IF d <= 7 THEN Lin(400, r, 2000, -20)
              ELSE IF d >= 10 THEN Lin(1000, r, 2000, -10)
              ELSE Lin(500, r, 2000, -15)
         [] t = "regular" ->
              IF d <= 3
              THEN IF r < 50 * 1000 THEN Lin(-5, r, 0, 50)
                   ELSE IF r <= 500 * 1000 THEN Lin(0, r, 0, 40)
                   ELSE IF r <= 1000 * 1000 THEN Lin(200, r, 500, 30)
                   ELSE IF r <= 1500 * 1000 THEN Lin(350, r, 1000, 10)
                   ELSE Lin(400, r, 1500, -25)
              ELSE IF d <= 7
              THEN IF r < 50 * 1000 THEN Lin(0, r, 0, 60)
                   ELSE IF r <= 500 * 1000 THEN Lin(0, r, 0, 50)
                   ELSE IF r <= 1000 * 1000 THEN Lin(250, r, 500, 40)
                   ELSE IF r <= 1500 * 1000 THEN Lin(450, r, 1000, 20)
                   ELSE Lin(550, r, 1500, -15)
              ELSE IF r < 50 * 1000 THEN Lin(0, r, 0, 40)
                   ELSE IF r <= 500 * 1000 THEN Lin(0, r, 0, 30)
                   ELSE IF r <= 1000 * 1000 THEN Lin(150, r, 500, 20)
                   ELSE IF r <= 1500 * 1000 THEN Lin(250, r, 1000, 10)
                   ELSE Lin(300, r, 1500, -30)

\* Line 324 and the comparisons of lines 327-333:
\* spending_per_day = receipts / days if days > 0 else 0, against x dollars.
SpendingGT(d, r, x) ==
    IF d > 0 THEN r > x * 1000 * d ELSE 0 > x

\* Lines 327-339: the spending-per-day multiplier, then the flat penalty of
\* long trips with high receipts.  x is a multiple of 20/Scale dollars.
receipt_reimbursement(d, m, e, r) ==
    LET x == receipt_base(d, m, e, r)
        y == IF d <= 3 /\ SpendingGT(d, r, 75) THEN (x \div 20) * 17
             ELSE IF 4 <= d /\ d <= 6 /\ SpendingGT(d, r, 120) THEN (x \div 10) * 9
             ELSE IF d >= 7 /\ SpendingGT(d, r, 90) THEN (x \div 5) * 4
             ELSE x
    IN IF d >= 10 /\ r > 1000 * 1000 THEN y - Money(250, 0) ELSE y

\* Line 342, in 1/Scale dollars.
total_reimbursement(d, m, e, r) ==
    per_diem_total(d) + mileage_reimbursement(d, m, e)
    + receipt_reimbursement(d, m, e, r) + efficiency_bonus(d, m, e)
    + rounding_bonus(r)

\* Line 346, in thousandths: (days * 7 + int(miles * 3) + int(receipts * 5)) % 20.
adjustment_factor(d, m, r) ==
    (d * 7 + 3 * m + (r \div 200)) % 20

\* Line 346: int(miles_traveled * 3) of a product that is inf raises
\* OverflowError.
IntOverflows(m, e) ==
    Huge(m, e)

\* Line 347: total_reimbursement * (1 + adjustment_factor), as cents.  The
\* product is taken on the quotient and the remainder of the total by one
\* cent so that no intermediate value leaves 32 bits.
Adjusted(d, m, e, r) ==
    LET cent == 10 * Scale
        n == total_reimbursement(d, m, e, r)
        k == 1000 + adjustment_factor(d, m, r)
        a == n \div cent
        b == n % cent
    IN [q |-> a * k + ((b * k) \div cent), rem |-> (b * k) % cent, den |-> cent]

\* Mutant of Clamp: the minimum not enforced.
Clamp_Missing(a, d) ==
    a

\* Line 350: max(total_reimbursement, trip_duration_days * 50).
Clamp(a, d) ==
    IF a.q < d * 50 * 100 THEN Amt(d * 50 * 100, 1) ELSE a

\* Lines 176-350: the default amount before round().
DefaultAmount(d, m, e, r) ==
    Clamp(Adjusted(d, m, e, r), d)

\* ------------------------------------------------------------ the inputs
DaysDomain ==
    0 .. MaxDays

\* Whole miles: a grid, and the miles of the cases the code names.
MilesDomain ==
    {100 * k : k \in 0 .. MaxMilesSteps}
    \cup {5, 10, 50, 69, 75, 164, 175, 176, 481, 482, 740, 795, 865, 948, 988,
          1034, 1056, 1082, 1199}

\* Receipts, in thousandths of a dollar: whole cents, or whole eighths of a
\* dollar (which a double holds exactly).  A grid of dollar amounts with the
\* cents .00, .125, .48, .49 and .99, and the receipts of the cases the code
\* names.
ReceiptsDomain ==
    {(250 * k + 17) * 1000 + c :
        k \in 0 .. MaxReceiptSteps, c \in {0, 125, 480, 490, 990}}
    \cup {0, 125, 375, 100000, 493000, 657170, 939990, 1050670, 1144900,
          1171990, 1200000, 1338900, 1411490, 1443250, 1645990, 1809490,
          2007150, 2321490, 2350000, 2477980, 2489690, 2492790, 2497160}

\* The exact amount is halfway between two cents and the double the code
\* holds is not the exact amount: which cent round() returns depends on the
\* error of the double.
RepresentationSensitive(d, m, e, r) ==
    /\ ~Huge(m, e)
    /\ \/ /\ Stage(d, m, e, r) = "default"
          /\ IsHalfway(DefaultAmount(d, m, e, r))
       \/ /\ Stage(d, m, e, r) = "pattern"
          /\ FirstMatch(d, m, e, r) = 19
          /\ IsHalfway(PatternAmount(19, d, m, e, r))

\* ------------------------------------------------------ the state machine
Init ==
    /\ trip_duration_days \in DaysDomain
    /\ \E p \in (MilesDomain \X {0}) \cup {<<1, 308>>} :
          /\ miles_traveled = p[1]
          /\ miles_exp10 = p[2]
    /\ total_receipts_amount \in ReceiptsDomain
    /\ ~RepresentationSensitive(trip_duration_days, miles_traveled,
                                miles_exp10, total_receipts_amount)
    /\ pc = "start"
    /\ path = "none"
    /\ rule = 0
    /\ outcome = "none"
    /\ result = 0

\* Lines 17-34: the return of the minimal-travel block.
LowTravelOverride ==
    /\ pc = "start"
    /\ Stage(trip_duration_days, miles_traveled, miles_exp10,
             total_receipts_amount) = "low_travel"
    /\ result' = PyRound(LowTravelAmount(trip_duration_days,
                                         total_receipts_amount))
    /\ path' = "low_travel"
    /\ rule' = 0
    /\ outcome' = "returned"
    /\ pc' = "done"
    /\ UNCHANGED inputs

\* Lines 38-91 and 105-127: the return of a hardcoded case.
SpecialCase ==
    /\ pc = "start"
    /\ Stage(trip_duration_days, miles_traveled, miles_exp10,
             total_receipts_amount) = "special"
    /\ rule' = FirstMatch(trip_duration_days, miles_traveled, miles_exp10,
                          total_receipts_amount)
    /\ result' = SpecialValue(rule')
    /\ path' = "special"
    /\ outcome' = "returned"
    /\ pc' = "done"
    /\ UNCHANGED inputs

\* Lines 94-101 and 131-174: the return of a broad pattern.  With Huge miles
\* a closed form in miles is a finite double of the order of 1e305 or more
\* (outcome "returned_huge", result left at 0).
PatternOverride ==
    /\ pc = "start"
    /\ Stage(trip_duration_days, miles_traveled, miles_exp10,
             total_receipts_amount) = "pattern"
    /\ rule' = FirstMatch(trip_duration_days, miles_traveled, miles_exp10,
                          total_receipts_amount)
    /\ IF Huge(miles_traveled, miles_exp10) /\ PatternUsesMiles(rule')
       THEN /\ outcome' = "returned_huge"
            /\ result' = 0
       ELSE /\ outcome' = "returned"
            /\ result' = PyRound(PatternAmount(rule', trip_duration_days,
                                 miles_traveled, miles_exp10,
                                 total_receipts_amount))
    /\ path' = "pattern"
    /\ pc' = "done"
    /\ UNCHANGED inputs

\* Lines 176-353: the default formula, its adjustments and the final round();
\* the call ends in OverflowError when int() is given inf.
DefaultFormula ==
    /\ pc = "start"
    /\ Stage(trip_duration_days, miles_traveled, miles_exp10,
             total_receipts_amount) = "default"
    /\ IF IntOverflows(miles_traveled, miles_exp10)
       THEN /\ outcome' = "OverflowError"
            /\ result' = 0
       ELSE /\ outcome' = "returned"
            /\ result' = PyRound(DefaultAmount(trip_duration_days,
                                 miles_traveled, miles_exp10,
                                 total_receipts_amount))
    /\ path' = "default"
    /\ rule' = 0
    /\ pc' = "done"
    /\ UNCHANGED inputs

Next ==
    \/ LowTravelOverride
    \/ SpecialCase
    \/ PatternOverride
    \/ DefaultFormula

Spec ==
    Init /\ [][Next]_vars

\* ------------------------------------------------------------ the claims
IsInput(d, m, r) ==
    /\ trip_duration_days = d
    /\ miles_traveled = m
    /\ miles_exp10 = 0
    /\ total_receipts_amount = r

\* res cents is a nearest cent of num/den cents.
NearestCent(res, num, den) ==
    /\ 2 * (res * den - num) <= den
    /\ 2 * (num - res * den) <= den

\* The unrounded amount of the return statement the call reached.
ReturnAmount ==
    CASE path = "low_travel" ->
           LowTravelAmount(trip_duration_days, total_receipts_amount)
      [] path = "pattern" ->
           PatternAmount(rule, trip_duration_days, miles_traveled,
                         miles_exp10, total_receipts_amount)
      [] path = "default" ->
           DefaultAmount(trip_duration_days, miles_traveled, miles_exp10,
                         total_receipts_amount)

\* C1 (the claim as stated): the five exact fixtures are reproduced:
\* (4, 69, 2321.49) returns 322.00, (8, 795, 1645.99) returns 644.69,
\* (1, 1082, 1809.49) returns 446.94, (13, 1199, 493.00) returns 1634.13 and
\* (10, 5, 1338.90) returns 1610.25.
C1_FixturesReproduced ==
    pc = "done" =>
        /\ IsInput(4, 69, 2321490) => outcome = "returned" /\ result = 32200
        /\ IsInput(8, 795, 1645990) => outcome = "returned" /\ result = 64469
        /\ IsInput(1, 1082, 1809490) => outcome = "returned" /\ result = 44694
        /\ IsInput(13, 1199, 493000) => outcome = "returned" /\ result = 163413
        /\ IsInput(10, 5, 1338900) => outcome = "returned" /\ result = 161025

\* C2: whenever miles_per_day < 20 and the condition of a hardcoded special
\* case holds as well, the call returns through the minimal-travel block
\* with that block's amount, and not the literal of the special case.
C2_LowTravelPreemptsSpecial ==
    \A i \in SpecialIds :
        ( /\ pc = "done"
          /\ MpdLT(trip_duration_days, miles_traveled, miles_exp10, 20)
          /\ RuleMatches(i, trip_duration_days, miles_traveled, miles_exp10,
                         total_receipts_amount) )
        => /\ path = "low_travel"
           /\ rule = 0
           /\ outcome = "returned"
           /\ result = PyRound(LowTravelAmount(trip_duration_days,
                                               total_receipts_amount))
           /\ result # SpecialValue(i)

\* C2 witness: (4, 69, 2321.49) has 17.25 miles per day and lies in the
\* ranges of the first special case; the call has returned 2401.49.
C2_Witness ==
    /\ pc = "done"
    /\ IsInput(4, 69, 2321490)
    /\ RuleMatches(1, 4, 69, 0, 2321490)
    /\ path = "low_travel"
    /\ result = 240149

\* C3: with miles_per_day < 20 (0 when days = 0) the result is the nearest
\* cent of 700 + receipts when days >= 12 and receipts < 500, of
\* 800 + 0.8 * receipts when days >= 12 and receipts >= 500, and of
\* receipts + 20 * days when days < 12; (3, 10, 100) returns 160.00.
C3_LowTravelFormula ==
    ( /\ pc = "done"
      /\ \/ trip_duration_days = 0
         \/ /\ miles_exp10 = 0
            /\ miles_traveled < 20 * trip_duration_days )
    => /\ outcome = "returned"
       /\ (trip_duration_days >= 12 /\ total_receipts_amount < 500000)
            => NearestCent(result, 700000 + total_receipts_amount, 10)
       /\ (trip_duration_days >= 12 /\ total_receipts_amount >= 500000)
            => NearestCent(result, 8000000 + 8 * total_receipts_amount, 100)
       /\ trip_duration_days < 12
            => NearestCent(result, total_receipts_amount
                                   + 20000 * trip_duration_days, 10)
       /\ IsInput(3, 10, 100000) => result = 16000

\* C3 witness: the call on (3, 10, 100) has returned 160.00.
C3_Witness ==
    /\ pc = "done"
    /\ IsInput(3, 10, 100000)
    /\ path = "low_travel"
    /\ result = 16000

\* C4: every value returned by the default formula is at least 50 * days.
C4_FloorInvariant ==
    (pc = "done" /\ path = "default" /\ outcome = "returned")
    => result >= 50 * 100 * trip_duration_days

\* C4 witness: a default-path call whose adjusted total was below
\* 50 * days (here negative) and that returned exactly 50 * days.
C4_Witness ==
    /\ pc = "done"
    /\ path = "default"
    /\ outcome = "returned"
    /\ trip_duration_days >= 1
    /\ Adjusted(trip_duration_days, miles_traveled, miles_exp10,
                total_receipts_amount).q < 0
    /\ result = 50 * 100 * trip_duration_days

\* The .49 neighbour of the current input, one cent above receipts ending
\* in .48, also takes the default formula and is returned exactly.
C5_Pair ==
    /\ pc = "done"
    /\ path = "default"
    /\ outcome = "returned"
    /\ total_receipts_amount % 1000 = 480
    /\ Stage(trip_duration_days, miles_traveled, miles_exp10,
             total_receipts_amount + 10) = "default"
    /\ ~RepresentationSensitive(trip_duration_days, miles_traveled,
                                miles_exp10, total_receipts_amount + 10)

\* What the call returns for the .49 neighbour, minus the current result.
C5_Difference ==
    PyRound(DefaultAmount(trip_duration_days, miles_traveled, miles_exp10,
                          total_receipts_amount + 10)) - result

\* Neither value of the pair is raised by the floor clamp.
C5_Unclamped ==
    /\ Adjusted(trip_duration_days, miles_traveled, miles_exp10,
                total_receipts_amount).q >= 50 * 100 * trip_duration_days
    /\ Adjusted(trip_duration_days, miles_traveled, miles_exp10,
                total_receipts_amount + 10).q >= 50 * 100 * trip_duration_days

\* C5 (the claim as stated): on the default path, receipts ending in .49
\* return exactly 2.50 more than the same receipts ending in .48.
C5_ExactlyTwoFifty ==
    C5_Pair => C5_Difference = 250

\* C5 (amended): the two returned values differ by 2.50 plus the receipt
\* sub-total's change for the extra cent, times the noise multiplier 1 + f,
\* each value rounded to the cent: by 2.49 to 2.56 when the floor clamp
\* raises neither value, and by 0 to 2.56 when it raises one of them.
C5_BonusScaledByNoise ==
    C5_Pair =>
        /\ C5_Difference >= 0
        /\ C5_Difference <= 256
        /\ C5_Unclamped => C5_Difference >= 249

\* C5 witness: (5, 100, 17.48) has returned 612.71 and (5, 100, 17.49)
\* returns 615.22, neither clamped: a difference of 2.51.
C5_Witness ==
    /\ C5_Pair
    /\ C5_Unclamped
    /\ IsInput(5, 100, 17480)
    /\ result = 61271
    /\ C5_Difference = 251

\* C6 (the claim as stated): every call on non-negative inputs returns a
\* number and raises nothing, days = 0 and very large values included.
C6_Total ==
    pc = "done" => outcome \in {"returned", "returned_huge"}

\* C7 (the claim as stated): on every exit path that rounds, the returned
\* value is the unrounded amount rounded half up to the cent.
C7_RoundsHalfUp ==
    (pc = "done" /\ outcome = "returned" /\ path # "special")
    => result = RoundHalfUp(ReturnAmount)

\* C8: with miles_per_day >= 20, whenever the condition of some hardcoded
\* special case holds, the call returns the literal of the first such case
\* in the order of the code, also when the condition of a broad pattern
\* holds as well.
C8_SpecialPreemptsPattern ==
    LET S == {i \in SpecialIds :
                 RuleMatches(i, trip_duration_days, miles_traveled,
                             miles_exp10, total_receipts_amount)}
    IN ( /\ pc = "done"
         /\ ~MpdLT(trip_duration_days, miles_traveled, miles_exp10, 20)
         /\ S # {} )
       => /\ path = "special"
          /\ outcome = "returned"
          /\ \A j \in S : rule <= j
          /\ rule \in S
          /\ result = SpecialValue(rule)

\* C8 witness: (14, 1056, 2489.69) satisfies the second special case and
\* the first broad pattern (days >= 13, miles > 400, receipts > 2000); the
\* call has returned the literal 1894.16.
C8_Witness ==
    /\ pc = "done"
    /\ IsInput(14, 1056, 2489690)
    /\ RuleMatches(2, 14, 1056, 0, 2489690)
    /\ RuleMatches(12, 14, 1056, 0, 2489690)
    /\ path = "special"
    /\ result = 189416

\* C9 (the claim as stated): with 9 <= days <= 11 and receipts in
\* 1000..1500, no special case and no earlier broad pattern matching, the
\* result is receipts + 50 * days when miles_per_day < 20, 1500 + 15 * days
\* when 20 <= miles_per_day < 50, and 1400 + 10 * days otherwise.
C9_NineToElevenDayPattern ==
    ( /\ pc = "done"
      /\ 9 <= trip_duration_days
      /\ trip_duration_days <= 11
      /\ ReceiptsIn(total_receipts_amount, 1000, 1500)
      /\ \A i \in SpecialIds \cup {12, 13, 19, 20, 21} :
            ~RuleMatches(i, trip_duration_days, miles_traveled, miles_exp10,
                         total_receipts_amount) )
    => /\ outcome = "returned"
       /\ result =
            IF MpdLT(trip_duration_days, miles_traveled, miles_exp10, 20)
            THEN (total_receipts_amount \div 10) + 50 * 100 * trip_duration_days
            ELSE IF MpdLT(trip_duration_days, miles_traveled, miles_exp10, 50)
            THEN (1500 + 15 * trip_duration_days) * 100
            ELSE (1400 + 10 * trip_duration_days) * 100

\* C10: whenever the default formula is reached, days >= 1 and
\* miles_per_day >= 20, so none of its miles_per_day < 20 tiers (0.30 per
\* mile, no efficiency bonus, the 0.7/0.8/0.9 receipt fractions) is taken.
C10_DefaultPathAboveLowTravel ==
    (pc = "done" /\ path = "default")
    => /\ trip_duration_days >= 1
       /\ ~MpdLT(trip_duration_days, miles_traveled, miles_exp10, 20)
       /\ MileageTier(trip_duration_days, miles_traveled, miles_exp10) # "lt20"
       /\ EfficiencyRate(trip_duration_days, miles_traveled, miles_exp10) # 0
       /\ ReceiptTier(trip_duration_days, miles_traveled, miles_exp10,
                      total_receipts_amount) # "minimal_travel"

\* C10 witness: a default-path call at exactly 20 miles per day, the lowest
\* ratio that reaches the formula, paid at the 0.40 tier.
C10_Witness ==
    /\ pc = "done"
    /\ path = "default"
    /\ outcome = "returned"
    /\ miles_exp10 = 0
    /\ miles_traveled = 20 * trip_duration_days
    /\ MileageTier(trip_duration_days, miles_traveled, miles_exp10) = "lt50"

====
